---- MODULE Spec2Model ----
(***************************************************************************)
(* Model of simple_web_server: the thread pool (src/src/thread_pool.rs),   *)
(* the accept loop (src/src/lib.rs), the connection handler                *)
(* (src/src/http_connection.rs) and the start-up (src/src/main.rs).        *)
(*                                                                         *)
(* The specifications share the variables:                                 *)
(*   Spec / FairSpec  the thread pool driven by its owner thread           *)
(*   ServerSpec / FairServerSpec  Server::run, the accept loop             *)
(*   PathSpec         HTTPConnection::perform on a request that has been   *)
(*                    read, for every request target                       *)
(*   PerformSpec      HTTPConnection::perform from the first byte the      *)
(*                    client sends to the return                           *)
(*   MainSpec         main from the parsed arguments to Server::run        *)
(***************************************************************************)
EXTENDS Integers, Sequences, FiniteSets, TLC

\* ------------------------------------------------------------------ bounds
MaxThreads == 2      \* largest threads_number explored
MaxJobs == 3         \* largest number of send_job calls explored
MaxBacklog == 256    \* largest number of send_job calls while one job runs on
MaxConns == 2        \* largest number of client connections explored
MaxHeaders == 1      \* largest number of header lines of a byte stream
MaxPieces == 4       \* largest number of pieces a request target is built of

\* ------------------------------------------------------- program constants
U8Mod == 256         \* AtomicU8 arithmetic wraps modulo 2^8
MAX_REQUEST_READ_SIZE == 4096
BufWriterCapacity == 8192    \* io::BufWriter::new: the default buffer size of std
NotFoundPageLen == 728       \* byte length of NOT_FOUND_HTML_PAGE_CODE
BigTextLen == 9000           \* byte length of the large page of the site

VARIABLES
    \* ---- ThreadPool (thread_pool.rs:4-11) and its worker threads
    threads_number,          \* _threads_number
    queue,                   \* contents of the mpsc channel, oldest first
    sender_alive,            \* job_sender is Some (not yet dropped)
    mutex,                   \* holder of job_receiver_mutex, 0 when free
    wpc,                     \* position of each worker thread in its closure
    wjob,                    \* the Job a worker holds, 0 when none
    active_threads_number,   \* AtomicU8
    active_jobs_counter,     \* AtomicU8
    jobs_queue_size,         \* AtomicU8
    cpc,                     \* position of the thread that owns the pool
    \* ---- history of the pool, for stating properties
    sent,                    \* jobs for which send_job returned, in order
    dequeued,                \* jobs in the order recv returned them
    started,                 \* jobs in the order their bodies began
    finished,                \* jobs whose body has ended (returned or panicked)
    \* ---- Server::run (lib.rs:43-93) and its environment
    run_pc,                  \* position of the accept loop
    run_exit,                \* why run returned, "none" while it loops
    ctrl_c,                  \* the Ctrl-C channel: "none", "pending", "received"
    conn,                    \* state of each client connection
    cur_conn,                \* the stream the accept loop holds, 0 when none
    handler_thread,          \* the thread on which perform ran for a connection
    perform_result,          \* what perform returned to run
    logged,                  \* connections whose error run has printed
    conn_result,             \* what perform returned for each connection
    late_accepts,            \* connections accepted while a signal was waiting
    \* ---- HTTPConnection::perform (http_connection.rs:23-82) on one request
    hpc,                     \* position inside perform
    host_fs,                 \* which optional entries the host filesystem has
    request,                 \* the request read_http_request has put together
    full_path,               \* full_path (line 57), as a list of components
    file_content,            \* requested_file_content (line 60)
    answer,                  \* answer (line 62)
    herror,                  \* the Err perform returned, "none" otherwise
    rd_input,                \* the bytes the client sends, as symbols
    rd_end,                  \* what follows them: "eof" or "timeout" (silence)
    rd_pos,                  \* number of bytes of rd_input consumed so far
    rd_limit,                \* bytes the Take adapter (line 111) still lets through
    wbuf,                    \* bytes held in the BufWriter's buffer (line 66)
    sent_bytes,              \* response bytes that reached the socket
    write_failed,            \* a write of response bytes to the socket failed
    shutdowns,               \* number of calls of stream.shutdown (line 76)
    steps,                   \* the steps perform has taken, in order
    \* ---- main (main.rs:4-37)
    main_pc,                 \* position of main
    args,                    \* the Args clap has parsed
    config_result,           \* what Args::build_config returned, "none" before
    pool_workers             \* threads ThreadPool::new has spawned

poolVars == <<threads_number, queue, sender_alive, mutex, wpc, wjob,
              active_threads_number, active_jobs_counter, jobs_queue_size,
              cpc, sent, dequeued, started, finished>>

serverVars == <<run_pc, run_exit, ctrl_c, conn, cur_conn, handler_thread,
                perform_result, logged, conn_result, late_accepts>>

readVars == <<rd_input, rd_end, rd_pos, rd_limit>>

writeVars == <<wbuf, sent_bytes, write_failed, shutdowns>>

handlerVars == <<hpc, host_fs, request, full_path, file_content, answer, herror,
                 readVars, writeVars, steps>>

mainVars == <<main_pc, args, config_result, pool_workers>>

vars == <<poolVars, serverVars, handlerVars, mainVars>>

Conns == 1..MaxConns

AllWorkers == 1..MaxThreads
Workers == 1..threads_number

Range(s) == {s[i] : i \in 1..Len(s)}

\* ------------------------------------------------- atomics and the channel
\* AtomicU8::fetch_add(1) / fetch_sub(1): wrapping arithmetic
FetchAdd(n) == (n + 1) % U8Mod
FetchSub(n) == (n + U8Mod - 1) % U8Mod

\* a channel that hands out its newest message
RecvJobNewest(q) == q[Len(q)]
\* mpsc::Receiver::recv returns Ok(job) with the oldest message
RecvJob(q) == Head(q)
\* a channel whose recv leaves the message in place
RecvRestKeep(q) == q
\* ... and that message is removed from the channel
RecvRest(q) == Tail(q)
\* a recv that reports disconnection while messages are still buffered
RecvDisconnectedEarly(q, alive) == ~alive
\* mpsc::Receiver::recv returns Err only when the channel is empty and
\* every Sender has been dropped
RecvDisconnected(q, alive) == q = <<>> /\ ~alive
\* all worker closures have ended, so the Arc<Mutex<Receiver>> is dropped
ReceiverDropped == \A w \in Workers : wpc[w] \in {"done", "panicked"}

\* ------------------------------------------------------------ ThreadPool::new
PoolInit ==
    /\ threads_number \in 1..MaxThreads
    /\ queue = <<>>
    /\ sender_alive = TRUE
    /\ mutex = 0
    /\ wpc = [w \in AllWorkers |-> IF w <= threads_number THEN "lock" ELSE "none"]
    /\ wjob = [w \in AllWorkers |-> 0]
    /\ active_threads_number = threads_number
    /\ active_jobs_counter = 0
    /\ jobs_queue_size = 0
    /\ cpc = "idle"
    /\ sent = <<>>
    /\ dequeued = <<>>
    /\ started = <<>>
    /\ finished = {}

\* ------------------------------------------------------------- worker thread
\* line 48: job_receiver_mutex.lock()
WorkerLock(w) ==
    /\ wpc[w] = "lock"
    /\ mutex = 0
    /\ mutex' = w
    /\ wpc' = [wpc EXCEPT ![w] = "recv"]
    /\ UNCHANGED <<threads_number, queue, sender_alive, wjob,
                   active_threads_number, active_jobs_counter, jobs_queue_size,
                   cpc, sent, dequeued, started, finished>>
    /\ UNCHANGED <<serverVars, handlerVars, mainVars>>

\* a worker that keeps the guard after recv
WorkerRecvJobLockKept(w) ==
    /\ wpc[w] = "recv"
    /\ queue # <<>>
    /\ wjob' = [wjob EXCEPT ![w] = RecvJob(queue)]
    /\ queue' = RecvRest(queue)
    /\ dequeued' = Append(dequeued, RecvJob(queue))
    /\ wpc' = [wpc EXCEPT ![w] = "dec_queue"]
    /\ UNCHANGED <<threads_number, sender_alive, mutex,
                   active_threads_number, active_jobs_counter, jobs_queue_size,
                   cpc, sent, started, finished>>
    /\ UNCHANGED <<serverVars, handlerVars, mainVars>>

\* lines 51-53, Ok: recv() hands over the oldest Job, the guard is dropped
WorkerRecvJob(w) ==
    /\ wpc[w] = "recv"
    /\ queue # <<>>
    /\ wjob' = [wjob EXCEPT ![w] = RecvJob(queue)]
    /\ queue' = RecvRest(queue)
    /\ dequeued' = Append(dequeued, RecvJob(queue))
    /\ mutex' = 0
    /\ wpc' = [wpc EXCEPT ![w] = "dec_queue"]
    /\ UNCHANGED <<threads_number, sender_alive,
                   active_threads_number, active_jobs_counter, jobs_queue_size,
                   cpc, sent, started, finished>>
    /\ UNCHANGED <<serverVars, handlerVars, mainVars>>

\* lines 51-58, Err: the channel is disconnected, the guard is dropped, break
WorkerRecvErr(w) ==
    /\ wpc[w] = "recv"
    /\ RecvDisconnected(queue, sender_alive)
    /\ mutex' = 0
    /\ wpc' = [wpc EXCEPT ![w] = "exit"]
    /\ UNCHANGED <<threads_number, queue, sender_alive, wjob,
                   active_threads_number, active_jobs_counter, jobs_queue_size,
                   cpc, sent, dequeued, started, finished>>
    /\ UNCHANGED <<serverVars, handlerVars, mainVars>>

\* line 61: jobs_queue_size.fetch_sub(1)
WorkerDecQueue(w) ==
    /\ wpc[w] = "dec_queue"
    /\ jobs_queue_size' = FetchSub(jobs_queue_size)
    /\ wpc' = [wpc EXCEPT ![w] = "inc_active"]
    /\ UNCHANGED <<threads_number, queue, sender_alive, mutex, wjob,
                   active_threads_number, active_jobs_counter,
                   cpc, sent, dequeued, started, finished>>
    /\ UNCHANGED <<serverVars, handlerVars, mainVars>>

\* line 64: active_jobs_counter.fetch_add(1)
WorkerIncActive(w) ==
    /\ wpc[w] = "inc_active"
    /\ active_jobs_counter' = FetchAdd(active_jobs_counter)
    /\ wpc' = [wpc EXCEPT ![w] = "call"]
    /\ UNCHANGED <<threads_number, queue, sender_alive, mutex, wjob,
                   active_threads_number, jobs_queue_size,
                   cpc, sent, dequeued, started, finished>>
    /\ UNCHANGED <<serverVars, handlerVars, mainVars>>

\* line 66: job() is entered
JobStart(w) ==
    /\ wpc[w] = "call"
    /\ started' = Append(started, wjob[w])
    /\ wpc' = [wpc EXCEPT ![w] = "running"]
    /\ UNCHANGED <<threads_number, queue, sender_alive, mutex, wjob,
                   active_threads_number, active_jobs_counter, jobs_queue_size,
                   cpc, sent, dequeued, finished>>
    /\ UNCHANGED <<serverVars, handlerVars, mainVars>>

\* line 66: job() returns
JobReturn(w) ==
    /\ wpc[w] = "running"
    /\ finished' = finished \cup {wjob[w]}
    /\ wjob' = [wjob EXCEPT ![w] = 0]
    /\ wpc' = [wpc EXCEPT ![w] = "dec_active"]
    /\ UNCHANGED <<threads_number, queue, sender_alive, mutex,
                   active_threads_number, active_jobs_counter, jobs_queue_size,
                   cpc, sent, dequeued, started>>
    /\ UNCHANGED <<serverVars, handlerVars, mainVars>>

\* thread state a panic inside job() leaves the worker in: nothing catches
\* the unwind (lines 43-71 hold no catch_unwind), the closure ends without
\* reaching line 67 or line 69
AfterJobPanic == "panicked"

\* line 66: job() panics
JobPanic(w) ==
    /\ wpc[w] = "running"
    /\ finished' = finished \cup {wjob[w]}
    /\ wjob' = [wjob EXCEPT ![w] = 0]
    /\ wpc' = [wpc EXCEPT ![w] = AfterJobPanic]
    /\ UNCHANGED <<threads_number, queue, sender_alive, mutex,
                   active_threads_number, active_jobs_counter, jobs_queue_size,
                   cpc, sent, dequeued, started>>
    /\ UNCHANGED <<serverVars, handlerVars, mainVars>>

\* line 67: active_jobs_counter.fetch_sub(1), then back to the top of the loop
WorkerDecActive(w) ==
    /\ wpc[w] = "dec_active"
    /\ active_jobs_counter' = FetchSub(active_jobs_counter)
    /\ wpc' = [wpc EXCEPT ![w] = "lock"]
    /\ UNCHANGED <<threads_number, queue, sender_alive, mutex, wjob,
                   active_threads_number, jobs_queue_size,
                   cpc, sent, dequeued, started, finished>>
    /\ UNCHANGED <<serverVars, handlerVars, mainVars>>

\* line 69: active_threads_number.fetch_sub(1), the thread ends
WorkerExit(w) ==
    /\ wpc[w] = "exit"
    /\ active_threads_number' = FetchSub(active_threads_number)
    /\ wpc' = [wpc EXCEPT ![w] = "done"]
    /\ UNCHANGED <<threads_number, queue, sender_alive, mutex, wjob,
                   active_jobs_counter, jobs_queue_size,
                   cpc, sent, dequeued, started, finished>>
    /\ UNCHANGED <<serverVars, handlerVars, mainVars>>

\* ------------------------------------------------ the thread owning the pool
\* line 89: send_job, jobs_queue_size.fetch_add(1); the owner calls send_job
\* at most limit times
SendJobCountUpTo(limit) ==
    /\ cpc = "idle"
    /\ Len(sent) < limit
    /\ jobs_queue_size' = FetchAdd(jobs_queue_size)
    /\ cpc' = "send"
    /\ UNCHANGED <<threads_number, queue, sender_alive, mutex, wpc, wjob,
                   active_threads_number, active_jobs_counter,
                   sent, dequeued, started, finished>>
    /\ UNCHANGED <<serverVars, handlerVars, mainVars>>

SendJobCount == SendJobCountUpTo(MaxJobs)

\* line 90, Ok: the Job is appended to the channel and send_job returns
SendJobSend ==
    /\ cpc = "send"
    /\ ~ReceiverDropped
    /\ queue' = Append(queue, Len(sent) + 1)
    /\ sent' = Append(sent, Len(sent) + 1)
    /\ cpc' = "idle"
    /\ UNCHANGED <<threads_number, sender_alive, mutex, wpc, wjob,
                   active_threads_number, active_jobs_counter, jobs_queue_size,
                   dequeued, started, finished>>
    /\ UNCHANGED <<serverVars, handlerVars, mainVars>>

\* lines 90-95, Err: the receiver is gone, the count is taken back, panic!
SendJobFail ==
    /\ cpc = "send"
    /\ ReceiverDropped
    /\ jobs_queue_size' = FetchSub(jobs_queue_size)
    /\ cpc' = "send_panicked"
    /\ UNCHANGED <<threads_number, queue, sender_alive, mutex, wpc, wjob,
                   active_threads_number, active_jobs_counter,
                   sent, dequeued, started, finished>>
    /\ UNCHANGED <<serverVars, handlerVars, mainVars>>

\* has_some_job, line 100: the first operand of &&
ActiveJobsLoaded(a) == a > 0
\* has_some_job, line 101: the second operand of &&
QueueSizeLoaded(q) == q = 0

\* line 105: wait_for_jobs_finish is called by the owner
WaitBegin ==
    /\ cpc = "idle"
    /\ cpc' = "wait_active"
    /\ UNCHANGED <<threads_number, queue, sender_alive, mutex, wpc, wjob,
                   active_threads_number, active_jobs_counter, jobs_queue_size,
                   sent, dequeued, started, finished>>
    /\ UNCHANGED <<serverVars, handlerVars, mainVars>>

\* line 112-114: drop is entered and calls wait_for_jobs_finish
DropBegin ==
    /\ cpc = "idle"
    /\ cpc' = "drop_wait_active"
    /\ UNCHANGED <<threads_number, queue, sender_alive, mutex, wpc, wjob,
                   active_threads_number, active_jobs_counter, jobs_queue_size,
                   sent, dequeued, started, finished>>
    /\ UNCHANGED <<serverVars, handlerVars, mainVars>>

\* lines 100, 106: load active_jobs_counter; && short-circuits when it is 0
\* and the while loop of wait_for_jobs_finish ends
HasSomeJobLoadActive ==
    /\ cpc \in {"wait_active", "drop_wait_active"}
    /\ cpc' = IF ActiveJobsLoaded(active_jobs_counter)
              THEN (IF cpc = "wait_active" THEN "wait_queue" ELSE "drop_wait_queue")
              ELSE (IF cpc = "wait_active" THEN "wait_done" ELSE "drop_take")
    /\ UNCHANGED <<threads_number, queue, sender_alive, mutex, wpc, wjob,
                   active_threads_number, active_jobs_counter, jobs_queue_size,
                   sent, dequeued, started, finished>>
    /\ UNCHANGED <<serverVars, handlerVars, mainVars>>

\* lines 101, 106: load jobs_queue_size; the while loop spins when it is 0
HasSomeJobLoadQueue ==
    /\ cpc \in {"wait_queue", "drop_wait_queue"}
    /\ cpc' = IF QueueSizeLoaded(jobs_queue_size)
              THEN (IF cpc = "wait_queue" THEN "wait_active" ELSE "drop_wait_active")
              ELSE (IF cpc = "wait_queue" THEN "wait_done" ELSE "drop_take")
    /\ UNCHANGED <<threads_number, queue, sender_alive, mutex, wpc, wjob,
                   active_threads_number, active_jobs_counter, jobs_queue_size,
                   sent, dequeued, started, finished>>
    /\ UNCHANGED <<serverVars, handlerVars, mainVars>>

\* line 107: wait_for_jobs_finish has returned to the owner
WaitReturn ==
    /\ cpc = "wait_done"
    /\ cpc' = "idle"
    /\ UNCHANGED <<threads_number, queue, sender_alive, mutex, wpc, wjob,
                   active_threads_number, active_jobs_counter, jobs_queue_size,
                   sent, dequeued, started, finished>>
    /\ UNCHANGED <<serverVars, handlerVars, mainVars>>

\* a drop that forgets to drop the Sender before it waits for the threads
DropSenderKept ==
    /\ cpc = "drop_take"
    /\ cpc' = "drop_spin"
    /\ UNCHANGED <<threads_number, queue, sender_alive, mutex, wpc, wjob,
                   active_threads_number, active_jobs_counter, jobs_queue_size,
                   sent, dequeued, started, finished>>
    /\ UNCHANGED <<serverVars, handlerVars, mainVars>>

\* lines 116-117: the Sender is taken out of the Option and dropped
DropSender ==
    /\ cpc = "drop_take"
    /\ sender_alive' = FALSE
    /\ cpc' = "drop_spin"
    /\ UNCHANGED <<threads_number, queue, mutex, wpc, wjob,
                   active_threads_number, active_jobs_counter, jobs_queue_size,
                   sent, dequeued, started, finished>>
    /\ UNCHANGED <<serverVars, handlerVars, mainVars>>

\* line 119: the spin loop ends when active_threads_number is loaded as 0
ThreadsGone(n) == ~(n > 0)

DropReturn ==
    /\ cpc = "drop_spin"
    /\ ThreadsGone(active_threads_number)
    /\ cpc' = "dropped"
    /\ UNCHANGED <<threads_number, queue, sender_alive, mutex, wpc, wjob,
                   active_threads_number, active_jobs_counter, jobs_queue_size,
                   sent, dequeued, started, finished>>
    /\ UNCHANGED <<serverVars, handlerVars, mainVars>>

\* ------------------------------------------------------- the pool as a whole
WorkerStep(w) ==
    \/ WorkerLock(w)
    \/ WorkerRecvJob(w)
    \/ WorkerRecvErr(w)
    \/ WorkerDecQueue(w)
    \/ WorkerIncActive(w)
    \/ JobStart(w)
    \/ JobReturn(w)
    \/ WorkerDecActive(w)
    \/ WorkerExit(w)

OwnerStep ==
    \/ SendJobCount
    \/ SendJobSend
    \/ SendJobFail
    \/ WaitBegin
    \/ HasSomeJobLoadActive
    \/ HasSomeJobLoadQueue
    \/ WaitReturn
    \/ DropBegin
    \/ DropSender
    \/ DropReturn

\* the accept loop before Server::init
ServerIdle ==
    /\ run_pc = "none"
    /\ run_exit = "none"
    /\ ctrl_c = "none"
    /\ conn = [c \in Conns |-> "absent"]
    /\ cur_conn = 0
    /\ handler_thread = [c \in Conns |-> "none"]
    /\ perform_result = "none"
    /\ logged = {}
    /\ conn_result = [c \in Conns |-> "none"]
    /\ late_accepts = {}

\* no connection is being handled
HandlerIdle ==
    /\ hpc = "none"
    /\ host_fs = [host_sub |-> FALSE, sub_index |-> FALSE, index |-> "text"]
    /\ request = <<>>
    /\ full_path = <<>>
    /\ file_content = "none"
    /\ answer = <<>>
    /\ herror = "none"
    /\ rd_input = <<>>
    /\ rd_end = "eof"
    /\ rd_pos = 0
    /\ rd_limit = 0
    /\ wbuf = 0
    /\ sent_bytes = 0
    /\ write_failed = FALSE
    /\ shutdowns = 0
    /\ steps = <<>>

\* main is not part of the run
MainIdle ==
    /\ main_pc = "none"
    /\ args = [addr_ok |-> TRUE, root_is_dir |-> TRUE, threads_number |-> 1]
    /\ config_result = "none"
    /\ pool_workers = 0

Init == PoolInit /\ ServerIdle /\ HandlerIdle /\ MainIdle

Next ==
    \/ \E w \in Workers : WorkerLock(w)
    \/ \E w \in Workers : WorkerRecvJob(w)
    \/ \E w \in Workers : WorkerRecvErr(w)
    \/ \E w \in Workers : WorkerDecQueue(w)
    \/ \E w \in Workers : WorkerIncActive(w)
    \/ \E w \in Workers : JobStart(w)
    \/ \E w \in Workers : JobReturn(w)
    \/ \E w \in Workers : JobPanic(w)
    \/ \E w \in Workers : WorkerDecActive(w)
    \/ \E w \in Workers : WorkerExit(w)
    \/ OwnerStep

Spec == Init /\ [][Next]_vars

\* the steps of the owner that lie inside a call it has already made
OwnerProgress ==
    \/ SendJobSend
    \/ SendJobFail
    \/ HasSomeJobLoadActive
    \/ HasSomeJobLoadQueue
    \/ WaitReturn
    \/ DropSender
    \/ DropReturn

\* every thread that can run is eventually scheduled, and a job body that
\* has been entered eventually ends
\* ---- a pool of one thread whose job runs on while the owner keeps sending
BacklogInit == Init /\ threads_number = 1

SendJobCountBacklog == SendJobCountUpTo(MaxBacklog)

BacklogNext ==
    \/ SendJobCountBacklog
    \/ SendJobSend
    \/ \E w \in Workers : WorkerLock(w)
    \/ \E w \in Workers : WorkerRecvJob(w)
    \/ \E w \in Workers : WorkerDecQueue(w)
    \/ \E w \in Workers : WorkerIncActive(w)
    \/ \E w \in Workers : JobStart(w)

BacklogSpec == BacklogInit /\ [][BacklogNext]_vars

FairSpec ==
    /\ Spec
    /\ \A w \in AllWorkers : WF_vars(WorkerStep(w))
    /\ WF_vars(OwnerProgress)

\* ================================================================ Server::run
\* what HTTPConnection::perform can return (http_connection.rs:206-218);
\* RequestReadError is split by the io::ErrorKind that run looks at
PerformResults ==
    {"Ok", "RequestReadError_TimedOut", "RequestReadError_WouldBlock",
     "RequestReadError_UnexpectedEof", "RequestReadError_Other",
     "WrongRequest", "WrongUri", "AnswerWriteError", "ShutdownFailed"}

\* set_read_timeout (http_connection.rs:30) makes a read fail when no byte arrives in
\* time; the io::ErrorKind of that failure depends on the platform
\* (WouldBlock on Unix, TimedOut on Windows)
ReadTimeoutErrors == {"RequestReadError_TimedOut", "RequestReadError_WouldBlock"}

\* lib.rs:84-88: the errors run does not print
IsSilent(r) == r = "RequestReadError_TimedOut"

\* lib.rs:18-40: Server::init has bound the listener and built the pool
ServerInit ==
    /\ PoolInit
    /\ HandlerIdle
    /\ MainIdle
    /\ run_pc = "ctrl_c"
    /\ run_exit = "none"
    /\ ctrl_c = "none"
    /\ conn = [c \in Conns |-> "absent"]
    /\ cur_conn = 0
    /\ handler_thread = [c \in Conns |-> "none"]
    /\ perform_result = "none"
    /\ logged = {}
    /\ conn_result = [c \in Conns |-> "none"]
    /\ late_accepts = {}

\* a client connects: the connection waits in the listener's backlog
ClientConnects(c) ==
    /\ conn[c] = "absent"
    /\ \A b \in Conns : b < c => conn[b] # "absent"
    /\ conn' = [conn EXCEPT ![c] = "pending"]
    /\ UNCHANGED <<run_pc, run_exit, ctrl_c, cur_conn, handler_thread,
                   perform_result, logged>>
    /\ UNCHANGED <<conn_result, late_accepts>>
    /\ UNCHANGED <<poolVars, handlerVars, mainVars>>

\* lib.rs:24-28: the Ctrl-C handler sends () on the channel
CtrlCSignal ==
    /\ ctrl_c = "none"
    /\ ctrl_c' = "pending"
    /\ UNCHANGED <<run_pc, run_exit, conn, cur_conn, handler_thread,
                   perform_result, logged>>
    /\ UNCHANGED <<conn_result, late_accepts>>
    /\ UNCHANGED <<poolVars, handlerVars, mainVars>>

\* a loop that does not look at the Ctrl-C channel
RunCheckCtrlCIgnored ==
    /\ run_pc = "ctrl_c"
    /\ run_pc' = "set_nonblocking"
    /\ UNCHANGED <<ctrl_c, run_exit>>
    /\ UNCHANGED <<conn, cur_conn, handler_thread, perform_result, logged>>
    /\ UNCHANGED <<conn_result, late_accepts>>
    /\ UNCHANGED <<poolVars, handlerVars, mainVars>>

\* lib.rs:46-56: try_recv on the Ctrl-C channel (the handler never drops its
\* Sender, so Disconnected does not occur)
RunCheckCtrlC ==
    /\ run_pc = "ctrl_c"
    /\ IF ctrl_c = "pending"
       THEN /\ ctrl_c' = "received"
            /\ run_pc' = "returned"
            /\ run_exit' = "ctrl_c"
       ELSE /\ run_pc' = "set_nonblocking"
            /\ UNCHANGED <<ctrl_c, run_exit>>
    /\ UNCHANGED <<conn, cur_conn, handler_thread, perform_result, logged>>
    /\ UNCHANGED <<conn_result, late_accepts>>
    /\ UNCHANGED <<poolVars, handlerVars, mainVars>>

\* lib.rs:59-62: tcp_listener.set_nonblocking(true); run returns when it fails
RunSetNonblocking ==
    /\ run_pc = "set_nonblocking"
    /\ \E ok \in BOOLEAN :
          IF ok
          THEN run_pc' = "accept" /\ UNCHANGED run_exit
          ELSE run_pc' = "returned" /\ run_exit' = "listener_set_nonblocking"
    /\ UNCHANGED <<ctrl_c, conn, cur_conn, handler_thread, perform_result, logged>>
    /\ UNCHANGED <<conn_result, late_accepts>>
    /\ UNCHANGED <<poolVars, handlerVars, mainVars>>

\* lib.rs:64-65, Ok: accept() takes the oldest connection of the backlog
RunAcceptOk ==
    /\ run_pc = "accept"
    /\ \E c \in Conns :
          /\ conn[c] = "pending"
          /\ \A b \in Conns : b < c => conn[b] # "pending"
          /\ conn' = [conn EXCEPT ![c] = "accepted"]
          /\ cur_conn' = c
          /\ late_accepts' = IF ctrl_c = "pending"
                             THEN late_accepts \cup {c}
                             ELSE late_accepts
    /\ run_pc' = "prepare"
    /\ UNCHANGED <<run_exit, ctrl_c, handler_thread, perform_result, logged>>
    /\ UNCHANGED conn_result
    /\ UNCHANGED <<poolVars, handlerVars, mainVars>>

\* lib.rs:64-65 and 91-92, Err: WouldBlock or any other accept error; the
\* if let does not match and the loop starts over
RunAcceptErr ==
    /\ run_pc = "accept"
    /\ run_pc' = "ctrl_c"
    /\ UNCHANGED <<run_exit, ctrl_c, conn, cur_conn, handler_thread,
                   perform_result, logged>>
    /\ UNCHANGED <<conn_result, late_accepts>>
    /\ UNCHANGED <<poolVars, handlerVars, mainVars>>

\* lib.rs:66-74: stream.set_nonblocking(false); run returns when it fails and
\* the stream is dropped
RunPrepareStream ==
    /\ run_pc = "prepare"
    /\ \E ok \in BOOLEAN :
          IF ok
          THEN /\ run_pc' = "perform"
               /\ UNCHANGED <<run_exit, conn, cur_conn>>
          ELSE /\ run_pc' = "returned"
               /\ run_exit' = "stream_set_nonblocking"
               /\ conn' = [conn EXCEPT ![cur_conn] = "closed"]
               /\ cur_conn' = 0
    /\ UNCHANGED <<ctrl_c, handler_thread, perform_result, logged>>
    /\ UNCHANGED <<conn_result, late_accepts>>
    /\ UNCHANGED <<poolVars, handlerVars, mainVars>>

\* the thread that executes perform for an accepted stream: lib.rs:77-79
\* calls it in the body of run itself
PerformThread == "accept_loop"

\* lib.rs:77-79: HTTPConnection::new(stream, root) and perform() is entered
RunPerformBegin ==
    /\ run_pc = "perform"
    /\ conn' = [conn EXCEPT ![cur_conn] = "serving"]
    /\ handler_thread' = [handler_thread EXCEPT ![cur_conn] = PerformThread]
    /\ run_pc' = "performing"
    /\ UNCHANGED <<run_exit, ctrl_c, cur_conn, perform_result, logged>>
    /\ UNCHANGED <<conn_result, late_accepts>>
    /\ UNCHANGED <<poolVars, handlerVars, mainVars>>

\* lib.rs:79: perform() returns; it consumed the stream, which is now closed
RunPerformEnd ==
    /\ run_pc = "performing"
    /\ \E r \in PerformResults :
          /\ perform_result' = r
          /\ conn_result' = [conn_result EXCEPT ![cur_conn] = r]
    /\ conn' = [conn EXCEPT ![cur_conn] = "closed"]
    /\ run_pc' = "result"
    /\ UNCHANGED <<run_exit, ctrl_c, cur_conn, handler_thread, logged>>
    /\ UNCHANGED late_accepts
    /\ UNCHANGED <<poolVars, handlerVars, mainVars>>

\* lib.rs:82-91: an error other than a read timeout is printed; either way
\* the loop starts over
RunHandleResult ==
    /\ run_pc = "result"
    /\ logged' = IF perform_result # "Ok" /\ ~IsSilent(perform_result)
                 THEN logged \cup {cur_conn}
                 ELSE logged
    /\ perform_result' = "none"
    /\ cur_conn' = 0
    /\ run_pc' = "ctrl_c"
    /\ UNCHANGED <<run_exit, ctrl_c, conn, handler_thread>>
    /\ UNCHANGED <<conn_result, late_accepts>>
    /\ UNCHANGED <<poolVars, handlerVars, mainVars>>

\* thread_pool.rs:48-51 under Server: run never calls send_job, so a worker
\* can only take the receiver mutex and block in recv
ServerNext ==
    \/ \E c \in Conns : ClientConnects(c)
    \/ CtrlCSignal
    \/ RunCheckCtrlC
    \/ RunSetNonblocking
    \/ RunAcceptOk
    \/ RunAcceptErr
    \/ RunPrepareStream
    \/ RunPerformBegin
    \/ RunPerformEnd
    \/ RunHandleResult
    \/ \E w \in Workers : WorkerLock(w)

ServerSpec == ServerInit /\ [][ServerNext]_vars

\* the thread that executes run keeps running, and every call of perform
\* returns (a read that gets no bytes ends with the read timeout)
RunStep ==
    \/ RunCheckCtrlC
    \/ RunSetNonblocking
    \/ RunAcceptOk
    \/ RunAcceptErr
    \/ RunPrepareStream
    \/ RunPerformBegin
    \/ RunPerformEnd
    \/ RunHandleResult

FairServerSpec == ServerSpec /\ WF_vars(RunStep)

\* ==================================================== HTTPConnection::perform
\* A request line is a sequence of symbols.  A symbol is one of the
\* characters " ", "/", ".", "%", "2", "e", "f", or a name: a run of
\* characters that holds none of these and starts with no hex digit.
HexDigits == {"2", "e", "f"}

\* the pieces request targets are built of
TargetPieces ==
    { <<"/">>,
      <<".", ".">>,
      <<"%", "2", "e", "%", "2", "e">>,
      <<"%", "2", "f">>,
      <<"%", "f", "f">>,
      <<"sub">>,
      <<"secret.txt">>,
      <<"index.html">> }

RECURSIVE Flatten(_)
Flatten(ps) == IF ps = <<>> THEN <<>> ELSE Head(ps) \o Flatten(Tail(ps))

Targets == {Flatten(ps) : ps \in UNION {[1..n -> TargetPieces] : n \in 0..MaxPieces}}

\* ---- get_requested_path, http_connection.rs:135-148
\* .skip_while(|&ch| ch != ' ')
RECURSIVE SkipWhileNotSpace(_)
SkipWhileNotSpace(s) ==
    IF s = <<>> THEN <<>>
    ELSE IF Head(s) # " " THEN SkipWhileNotSpace(Tail(s)) ELSE s

\* .skip(1)
SkipOne(s) == IF s = <<>> THEN <<>> ELSE Tail(s)

\* .take_while(|&ch| ch != ' ')
RECURSIVE TakeWhileNotSpace(_)
TakeWhileNotSpace(s) ==
    IF s = <<>> \/ Head(s) = " " THEN <<>>
    ELSE <<Head(s)>> \o TakeWhileNotSpace(Tail(s))

\* the byte a %XY escape stands for; bytes of 0x80 and above come out as
\* "\\xNN": none of them can be followed by a continuation byte here, so
\* each of them makes the decoded bytes invalid UTF-8
EscapedByte(x, y) ==
    IF x = "2"
    THEN (IF y = "e" THEN "." ELSE IF y = "f" THEN "/" ELSE "\"")
    ELSE "\\x" \o x \o y

IsInvalidByte(ch) == ch \in {"\\x" \o x \o y : x \in HexDigits \ {"2"}, y \in HexDigits}

\* urlencoding::decode (line 146): %XY with two hex digits becomes the byte,
\* any other % stays as it is
RECURSIVE DecodeBinary(_)
DecodeBinary(s) ==
    IF s = <<>> THEN <<>>
    ELSE IF Head(s) = "%" /\ Len(s) >= 3 /\ s[2] \in HexDigits /\ s[3] \in HexDigits
         THEN <<EscapedByte(s[2], s[3])>> \o DecodeBinary(SubSeq(s, 4, Len(s)))
         ELSE <<Head(s)>> \o DecodeBinary(Tail(s))

\* urlencoding::decode returns Err(FromUtf8Error) when the bytes are not UTF-8
DecodeOk(s) == \A i \in 1..Len(DecodeBinary(s)) : ~IsInvalidByte(DecodeBinary(s)[i])

\* the PATH token of "GET PATH HTTP...", lines 139-144
PathString(line) == TakeWhileNotSpace(SkipOne(SkipWhileNotSpace(line)))

\* the symbols of s before its first "\n"
RECURSIVE UpToNewline(_)
UpToNewline(s) ==
    IF s = <<>> \/ Head(s) = "\n" THEN <<>>
    ELSE <<Head(s)>> \o UpToNewline(Tail(s))

\* request.lines().next(), line 136: the text before the first "\n", less the
\* "\r" of a "\r\n"
FirstLine(s) ==
    LET l == UpToNewline(s)
    IN  IF Len(l) < Len(s) /\ l # <<>> /\ l[Len(l)] = "\r"
        THEN SubSeq(l, 1, Len(l) - 1)
        ELSE l

\* number of bytes of a sequence of symbols
RECURSIVE SymBytes(_)
SymBytes(s) == IF s = <<>> THEN 0 ELSE Len(Head(s)) + SymBytes(Tail(s))

\* ---- std::path: a path is [root |-> it starts with "/", parts |-> its
\* components]; Path::components drops empty components and "."
RECURSIVE PartsOf(_, _)
PartsOf(s, cur) ==
    IF s = <<>>
    THEN (IF cur \in {"", "."} THEN <<>> ELSE <<cur>>)
    ELSE IF Head(s) = "/"
         THEN (IF cur \in {"", "."} THEN <<>> ELSE <<cur>>) \o PartsOf(Tail(s), "")
         ELSE PartsOf(Tail(s), cur \o Head(s))

\* String -> PathBuf, line 147
ToPath(s) == [root |-> s # <<>> /\ Head(s) = "/", parts |-> PartsOf(s, "")]

\* PathBuf::push("index.html"), line 48
PushIndex(p) == [p EXCEPT !.parts = Append(p.parts, "index.html")]

\* ---- the host filesystem.  The server runs in /srv and serves ./www:
\* /srv/www/index.html, /srv/www/sub/ and (host_fs.sub_index)
\* /srv/www/sub/index.html are the site, /srv/secret.txt lies outside it,
\* and the host may have a directory /sub of its own (host_fs.host_sub).
\* host_fs.index says what /srv/www/index.html is: a small text, a text
\* of no bytes, a text larger than the BufWriter's buffer, a file that is not
\* UTF-8, or a file the server may not read
IndexKinds == {"text", "empty", "big", "binary", "unreadable"}
IndexFile == <<"srv", "www", "index.html">>
Cwd == <<"srv">>
RootFolder == <<"srv", "www">>
NoEntry == <<"*no entry*">>

Dirs(fs) ==
    {<<>>, <<"srv">>, <<"srv", "www">>, <<"srv", "www", "sub">>}
        \cup (IF fs.host_sub THEN {<<"sub">>} ELSE {})

\* the regular files
Files(fs) ==
    {<<"srv", "www", "index.html">>, <<"srv", "secret.txt">>}
        \cup (IF fs.sub_index THEN {<<"srv", "www", "sub", "index.html">>} ELSE {})

\* the files fs::read_to_string (line 164) can read as a String
TextFiles(fs) ==
    Files(fs) \ (IF fs.index \in {"binary", "unreadable"} THEN {IndexFile} ELSE {})

BigText == "BIG_TEXT"

TextOf(file) ==
    IF file = <<"srv", "secret.txt">> THEN "secret"
    ELSE IF file = <<"srv", "www", "index.html">> THEN "home" ELSE "sub home"

Parent(dir) == IF dir = <<>> THEN <<>> ELSE SubSeq(dir, 1, Len(dir) - 1)

\* path lookup of the operating system: the entry reached from cur
RECURSIVE Walk(_, _, _)
Walk(fs, cur, parts) ==
    IF parts = <<>> THEN cur
    ELSE IF cur \notin Dirs(fs) THEN NoEntry
    ELSE IF Head(parts) = ".." THEN Walk(fs, Parent(cur), Tail(parts))
    ELSE IF Append(cur, Head(parts)) \in Dirs(fs) \cup Files(fs)
         THEN Walk(fs, Append(cur, Head(parts)), Tail(parts))
         ELSE NoEntry

\* the entry a request path names: checked as it stands, an absolute path
\* from the root of the host filesystem and a relative one from the
\* working directory
HostEntry(fs, p) == Walk(fs, IF p.root THEN <<>> ELSE Cwd, p.parts)

\* Path::is_dir on the request path, line 47; the empty path names nothing
IsDir(fs, p) == (p.root \/ p.parts # <<>>) /\ HostEntry(fs, p) \in Dirs(fs)

\* what strip_prefix("/") leaves of a path that starts with "/", lines 51-55
StripPrefix(p) == p.parts

\* the text of a file of this filesystem
FileText(fs, file) ==
    IF file = IndexFile /\ fs.index = "big" THEN BigText
    ELSE IF file = IndexFile /\ fs.index = "empty" THEN ""
    ELSE TextOf(file)

\* a lookup that hands back whatever entry the path names
GetFileContentUnchecked(fs, path) ==
    IF Walk(fs, <<>>, path) # NoEntry THEN FileText(fs, Walk(fs, <<>>, path)) ELSE "none"

\* get_file_content, lines 152-166: None ("none") unless the path names a
\* file that exists and read_to_string succeeds
GetFileContent(fs, path) ==
    IF Walk(fs, <<>>, path) \in TextFiles(fs)
    THEN FileText(fs, Walk(fs, <<>>, path))
    ELSE "none"

NotFoundPage == "NOT_FOUND_HTML_PAGE_CODE"

\* str::len: the two long texts are named, not spelled out
ByteLen(text) ==
    IF text = NotFoundPage THEN NotFoundPageLen
    ELSE IF text = BigText THEN BigTextLen
    ELSE Len(text)

\* a Content-Length that counts one byte too many
ContentLengthOffByOne(content) == ByteLen(content) + 1

\* content.len(), line 197
ContentLength(content) == ByteLen(content)

\* form_http_answer, lines 170-204: the String it builds, one element for
\* each push_str / write!
FormHttpAnswer(content) ==
    LET body == IF content = "none" THEN NotFoundPage ELSE content
    IN  << IF content = "none" THEN "HTTP/1.1 404 Not Found\r\n" ELSE "HTTP/1.1 200 OK\r\n",
           "Server: Simple Web Server\r\n",
           "Connection: close\r\n",
           "Content-Type: text/html\r\n",
           "Content-Length: " \o ToString(ContentLength(body)) \o "\r\n",
           "\r\n",
           body >>

\* answer.as_bytes().len(), line 70
RECURSIVE AnswerLen(_)
AnswerLen(a) == IF a = <<>> THEN 0 ELSE ByteLen(Head(a)) + AnswerLen(Tail(a))

\* ---- the bytes a client sends.  A byte stream is a sequence of symbols,
\* each symbol a string of one or more bytes; "\n", "\r" and " " are always
\* symbols of their own
\* n copies of the byte s
RECURSIVE Rep(_, _)
Rep(s, n) ==
    IF n = 0 THEN ""
    ELSE IF n % 2 = 1 THEN s \o Rep(s, n - 1)
    ELSE LET h == Rep(s, n \div 2) IN h \o h

\* the bytes of a sequence of symbols as one string
RECURSIVE Join(_)
Join(s) == IF s = <<>> THEN "" ELSE Head(s) \o Join(Tail(s))

\* the first n bytes of a stream (fewer when it is shorter)
RECURSIVE TakeBytes(_, _)
TakeBytes(s, n) ==
    IF s = <<>> \/ n = 0 THEN <<>>
    ELSE IF Len(Head(s)) > n THEN <<SubSeq(Head(s), 1, n)>>
    ELSE <<Head(s)>> \o TakeBytes(Tail(s), n - Len(Head(s)))

\* a stream without its first n bytes
RECURSIVE DropBytes(_, _)
DropBytes(s, n) ==
    IF s = <<>> \/ n = 0 THEN s
    ELSE IF Len(Head(s)) > n
         THEN <<SubSeq(Head(s), n + 1, Len(Head(s)))>> \o Tail(s)
         ELSE DropBytes(Tail(s), n - Len(Head(s)))

\* a Take adapter that lets twice as many bytes through
TakeLimitDoubled == 2 * MAX_REQUEST_READ_SIZE

\* buf_reader.take(MAX_REQUEST_READ_SIZE as u64), line 111
TakeLimit == MAX_REQUEST_READ_SIZE

\* the first three bytes a stream can start with
Methods == {<<"G", "E", "T">>, <<"G", "E", "T", "X">>, <<"P", "O", "S", "T">>}

\* the rest of the request line: nothing, or a target and the version
LineRests ==
    { <<>>,
      <<" ", "/", " ", "HTTP/1.1">>,
      <<" ", "/", "missing", " ", "HTTP/1.1">> }

Eols == {<<"\r", "\n">>, <<"\n">>}

\* lengths of header lines without their line end: a short one, and three
\* that bring the request to the 4096-byte limit, one byte beyond and into
\* the middle of the line
PadLens == {10, 4079, 4080, 4090}

\* k header lines, each ending in eol
RECURSIVE HeaderLines(_, _)
HeaderLines(pads, eol) ==
    IF pads = <<>> THEN <<>>
    ELSE <<Rep("h", Head(pads))>> \o eol \o HeaderLines(Tail(pads), eol)

\* requests that end with an empty line
FullRequests ==
    { m \o r \o e \o HeaderLines(pads, e) \o e :
        m \in Methods, r \in LineRests, e \in Eols,
        pads \in UNION {[1..k -> PadLens] : k \in 0..MaxHeaders} }

\* what a client may have sent when it closes the connection or falls
\* silent: a request or any beginning of one
Streams == UNION {{SubSeq(r, 1, k) : k \in 0..Len(r)} : r \in FullRequests}

HostConfigs == [host_sub : BOOLEAN, sub_index : BOOLEAN, index : IndexKinds]

\* the bytes of a well-formed request for target t with no header fields
RequestFor(t) ==
    <<"G", "E", "T", " ">> \o t \o <<" ", "HTTP/1.1", "\r", "\n", "\r", "\n">>

\* read_http_request has returned Ok for a request made of GET, a target,
\* the version and the empty line
PathInit ==
    /\ PoolInit /\ threads_number = 1
    /\ ServerIdle
    /\ MainIdle
    /\ hpc = "request_read"
    /\ host_fs \in HostConfigs
    /\ rd_input \in {RequestFor(t) : t \in Targets}
    /\ rd_end = "eof"
    /\ rd_pos = SymBytes(rd_input)
    /\ rd_limit = TakeLimit - (SymBytes(rd_input) - 3)
    /\ request = <<"GET">> \o SubSeq(rd_input, 4, Len(rd_input))
    /\ full_path = <<>>
    /\ file_content = "none"
    /\ answer = <<>>
    /\ herror = "none"
    /\ wbuf = 0
    /\ sent_bytes = 0
    /\ write_failed = FALSE
    /\ shutdowns = 0
    /\ steps = <<"read_method", "read_line", "read_line">>

\* lines 43-57: the requested path is decoded, completed and joined to the root
PerformResolve ==
    /\ hpc = "request_read"
    /\ IF ~DecodeOk(PathString(FirstLine(request)))
       THEN /\ herror' = "WrongUri"
            /\ hpc' = "closed"
            /\ UNCHANGED full_path
       ELSE LET p == ToPath(DecodeBinary(PathString(FirstLine(request))))
                q == IF IsDir(host_fs, p) THEN PushIndex(p) ELSE p
            IN  IF ~q.root
                THEN /\ herror' = "WrongRequest"
                     /\ hpc' = "closed"
                     /\ UNCHANGED full_path
                ELSE /\ full_path' = RootFolder \o StripPrefix(q)
                     /\ hpc' = "resolved"
                     /\ UNCHANGED herror
    /\ steps' = Append(steps, "resolve")
    /\ UNCHANGED <<host_fs, request, file_content, answer>>
    /\ UNCHANGED <<readVars, writeVars>>
    /\ UNCHANGED <<poolVars, serverVars, mainVars>>

\* line 60: get_file_content(&full_path)
PerformLookup ==
    /\ hpc = "resolved"
    /\ file_content' = GetFileContent(host_fs, full_path)
    /\ hpc' = "looked_up"
    /\ steps' = Append(steps, "lookup")
    /\ UNCHANGED <<host_fs, request, full_path, answer, herror>>
    /\ UNCHANGED <<readVars, writeVars>>
    /\ UNCHANGED <<poolVars, serverVars, mainVars>>

\* line 62: form_http_answer
PerformAnswer ==
    /\ hpc = "looked_up"
    /\ answer' = FormHttpAnswer(file_content)
    /\ hpc' = "answered"
    /\ steps' = Append(steps, "form_answer")
    /\ UNCHANGED <<host_fs, request, full_path, file_content, herror>>
    /\ UNCHANGED <<readVars, writeVars>>
    /\ UNCHANGED <<poolVars, serverVars, mainVars>>

\* lines 66-73: BufWriter::write_all.  An answer shorter than the buffer is
\* only copied into it and Ok is returned without any I/O; a longer one is
\* written straight to the socket, and only then can write_all return Err
PerformWriteAll ==
    /\ hpc = "answered"
    /\ IF AnswerLen(answer) < BufWriterCapacity
       THEN /\ wbuf' = AnswerLen(answer)
            /\ hpc' = "written"
            /\ UNCHANGED <<sent_bytes, write_failed, herror>>
       ELSE \E ok \in BOOLEAN :
                IF ok
                THEN /\ sent_bytes' = sent_bytes + AnswerLen(answer)
                     /\ hpc' = "written"
                     /\ UNCHANGED <<wbuf, write_failed, herror>>
                ELSE /\ write_failed' = TRUE
                     /\ herror' = "AnswerWriteError"
                     /\ hpc' = "closed"
                     /\ UNCHANGED <<wbuf, sent_bytes>>
    /\ steps' = Append(steps, "write_all")
    /\ UNCHANGED <<host_fs, request, full_path, file_content, answer, shutdowns>>
    /\ UNCHANGED readVars
    /\ UNCHANGED <<poolVars, serverVars, mainVars>>

\* line 74: drop(buf_writer).  BufWriter's Drop writes the buffered bytes to
\* the socket and discards the io::Result of that write
PerformDropWriter ==
    /\ hpc = "written"
    /\ IF wbuf = 0
       THEN UNCHANGED <<wbuf, sent_bytes, write_failed>>
       ELSE \E ok \in BOOLEAN :
                /\ wbuf' = 0
                /\ sent_bytes' = IF ok THEN sent_bytes + wbuf ELSE sent_bytes
                /\ write_failed' = (write_failed \/ ~ok)
    /\ hpc' = "flushed"
    /\ steps' = Append(steps, "drop_writer")
    /\ UNCHANGED <<host_fs, request, full_path, file_content, answer, herror,
                   shutdowns>>
    /\ UNCHANGED readVars
    /\ UNCHANGED <<poolVars, serverVars, mainVars>>

\* lines 76-81: stream.shutdown(Shutdown::Both), then Ok(()) or ShutdownFailed
PerformShutdown ==
    /\ hpc = "flushed"
    /\ shutdowns' = shutdowns + 1
    /\ \E ok \in BOOLEAN : herror' = IF ok THEN "none" ELSE "ShutdownFailed"
    /\ hpc' = "closed"
    /\ steps' = Append(steps, "shutdown")
    /\ UNCHANGED <<host_fs, request, full_path, file_content, answer,
                   wbuf, sent_bytes, write_failed>>
    /\ UNCHANGED readVars
    /\ UNCHANGED <<poolVars, serverVars, mainVars>>

PathNext ==
    \/ PerformResolve
    \/ PerformLookup
    \/ PerformAnswer
    \/ PerformWriteAll
    \/ PerformDropWriter
    \/ PerformShutdown

PathSpec == PathInit /\ [][PathNext]_vars

\* ---- read_http_request, http_connection.rs:86-133
\* the bytes take.read_line (line 115) appends to line: up to and with the
\* next "\n", but no more than the limit lets through and no more than the
\* stream holds
RECURSIVE TakeLine(_, _)
TakeLine(rest, limit) ==
    IF rest = <<>> \/ limit = 0 THEN <<>>
    ELSE IF Len(Head(rest)) > limit THEN <<SubSeq(Head(rest), 1, limit)>>
    ELSE IF Head(rest) = "\n" THEN <<"\n">>
    ELSE <<Head(rest)>> \o TakeLine(Tail(rest), limit - Len(Head(rest)))

\* line == "\r\n" || line == "\n", line 125
IsEmptyLine(line) == Join(line) \in {"\r\n", "\n"}

\* perform is entered for a connection on which the client sends the bytes
\* of rd_input and then closes its side (eof) or stays silent (timeout)
PerformInit ==
    /\ PoolInit /\ threads_number = 1
    /\ ServerIdle
    /\ MainIdle
    /\ hpc = "start"
    /\ host_fs \in {fs \in HostConfigs : ~fs.host_sub /\ ~fs.sub_index}
    /\ rd_input \in Streams
    /\ rd_end \in {"eof", "timeout"}
    /\ rd_pos = 0
    /\ rd_limit = 0
    /\ request = <<>>
    /\ full_path = <<>>
    /\ file_content = "none"
    /\ answer = <<>>
    /\ herror = "none"
    /\ wbuf = 0
    /\ sent_bytes = 0
    /\ write_failed = FALSE
    /\ shutdowns = 0
    /\ steps = <<>>

\* lines 89-111: read_exact of 3 bytes and the comparison with "GET"
ReadMethod ==
    /\ hpc = "start"
    /\ LET buf == TakeBytes(rd_input, 3)
       IN  /\ rd_pos' = SymBytes(buf)
           /\ IF SymBytes(buf) < 3
              THEN /\ herror' \in (IF rd_end = "eof"
                                   THEN {"RequestReadError_UnexpectedEof"}
                                   ELSE ReadTimeoutErrors)
                   /\ hpc' = "closed"
                   /\ UNCHANGED <<request, rd_limit>>
              ELSE IF Join(buf) # "GET"
              THEN /\ herror' = "WrongRequest"
                   /\ hpc' = "closed"
                   /\ UNCHANGED <<request, rd_limit>>
              ELSE /\ request' = <<"GET">>
                   /\ rd_limit' = TakeLimit
                   /\ hpc' = "method_read"
                   /\ UNCHANGED herror
    /\ steps' = Append(steps, "read_method")
    /\ UNCHANGED <<host_fs, full_path, file_content, answer, rd_input, rd_end>>
    /\ UNCHANGED writeVars
    /\ UNCHANGED <<poolVars, serverVars, mainVars>>

\* lines 113-131: one turn of the loop around take.read_line
ReadLine ==
    /\ hpc = "method_read"
    /\ LET line == TakeLine(DropBytes(rd_input, rd_pos), rd_limit)
           n == SymBytes(line)
           found == line # <<>> /\ line[Len(line)] = "\n"
       IN  /\ rd_pos' = rd_pos + n
           /\ rd_limit' = rd_limit - n
           /\ IF ~found /\ n < rd_limit /\ rd_end = "timeout"
              THEN \* the stream is silent before the line ends: Err
                   /\ herror' \in ReadTimeoutErrors
                   /\ hpc' = "closed"
                   /\ UNCHANGED request
              ELSE IF n = 0
              THEN \* Ok(0)
                   /\ herror' = "WrongRequest"
                   /\ hpc' = "closed"
                   /\ UNCHANGED request
              ELSE /\ request' = request \o line
                   /\ hpc' = IF IsEmptyLine(line) THEN "request_read" ELSE "method_read"
                   /\ UNCHANGED herror
    /\ steps' = Append(steps, "read_line")
    /\ UNCHANGED <<host_fs, full_path, file_content, answer, rd_input, rd_end>>
    /\ UNCHANGED writeVars
    /\ UNCHANGED <<poolVars, serverVars, mainVars>>

PerformNext ==
    \/ ReadMethod
    \/ ReadLine
    \/ PerformResolve
    \/ PerformLookup
    \/ PerformAnswer
    \/ PerformWriteAll
    \/ PerformDropWriter
    \/ PerformShutdown

PerformSpec == PerformInit /\ [][PerformNext]_vars

\* ======================================================================= main
\* what clap can hand to main: the address string parses as a SocketAddrV4
\* or not, the root folder is a directory or not, and threads_number is any
\* u8
ArgsSet == [addr_ok : BOOLEAN, root_is_dir : BOOLEAN, threads_number : 0..(U8Mod - 1)]

\* a build_config without the check of threads_number
BuildConfigNoThreadsCheck(a) ==
    IF ~a.addr_ok THEN "WrongAddr"
    ELSE IF ~a.root_is_dir THEN "WrongRootFolderPath"
    ELSE "Ok"

\* Args::build_config, main.rs:55-72: the checks in the order of the code
BuildConfig(a) ==
    IF ~a.addr_ok THEN "WrongAddr"
    ELSE IF ~a.root_is_dir THEN "WrongRootFolderPath"
    ELSE IF a.threads_number = 0 THEN "ZeroThreadsNumber"
    ELSE "Ok"

\* main.rs:6: the arguments have been parsed
MainInit ==
    /\ PoolInit /\ threads_number = 1
    /\ ServerIdle
    /\ HandlerIdle
    /\ main_pc = "build_config"
    /\ args \in ArgsSet
    /\ config_result = "none"
    /\ pool_workers = 0

\* main.rs:17-22: build_config; on Err main prints it and returns FAILURE
MainBuildConfig ==
    /\ main_pc = "build_config"
    /\ config_result' = BuildConfig(args)
    /\ main_pc' = IF BuildConfig(args) = "Ok" THEN "server_init" ELSE "exit_failure"
    /\ UNCHANGED <<args, pool_workers>>
    /\ UNCHANGED <<poolVars, serverVars, handlerVars>>

\* lib.rs:20, main.rs:26-30: TcpListener::bind; on Err Server::init returns
\* it before the pool is built and main returns FAILURE
ServerInitBind ==
    /\ main_pc = "server_init"
    /\ \E ok \in BOOLEAN : main_pc' = IF ok THEN "pool_new" ELSE "exit_failure"
    /\ UNCHANGED <<args, config_result, pool_workers>>
    /\ UNCHANGED <<poolVars, serverVars, handlerVars>>

\* lib.rs:32 and thread_pool.rs:17-83: ThreadPool::new(config.threads_number)
\* asserts threads_number > 0 and spawns that many threads
ThreadPoolNew ==
    /\ main_pc = "pool_new"
    /\ IF args.threads_number > 0
       THEN /\ pool_workers' = args.threads_number
            /\ main_pc' = "run"
       ELSE /\ main_pc' = "assert_failed"
            /\ UNCHANGED pool_workers
    /\ UNCHANGED <<args, config_result>>
    /\ UNCHANGED <<poolVars, serverVars, handlerVars>>

\* main.rs:34-36: server.run() returns and main returns SUCCESS
MainRunReturns ==
    /\ main_pc = "run"
    /\ main_pc' = "exit_success"
    /\ UNCHANGED <<args, config_result, pool_workers>>
    /\ UNCHANGED <<poolVars, serverVars, handlerVars>>

MainNext ==
    \/ MainBuildConfig
    \/ ServerInitBind
    \/ ThreadPoolNew
    \/ MainRunReturns

MainSpec == MainInit /\ [][MainNext]_vars

\* ===================================================================== claims
Occurrences(s, x) == Cardinality({i \in 1..Len(s) : s[i] = x})
LiveWorkers == {w \in Workers : wpc[w] \notin {"panicked", "exit", "done"}}
SomeWorkerPanicked == \E w \in Workers : wpc[w] = "panicked"
\* jobs a worker has received and whose body it has not yet entered
HeldUnstarted == {wjob[w] : w \in {v \in Workers : wpc[v] \in {"dec_queue", "inc_active", "call"}}}

\* C1: at the instant wait_for_jobs_finish returns, every job accepted by
\* send_job so far has finished executing.
C1_WaitReturnsWhenAllFinished ==
    cpc = "wait_done" => \A j \in Range(sent) : j \in finished

\* C2: each job is received from the channel by at most one worker and its
\* body is invoked at most once.
C2_AtMostOnce ==
    \A j \in 1..MaxJobs :
        /\ Occurrences(dequeued, j) <= 1
        /\ Occurrences(started, j) <= 1
        /\ Cardinality({w \in Workers : wjob[w] = j}) <= 1

\* two workers are inside two different job bodies at the same time
C2_Witness ==
    \E v, w \in Workers :
        /\ v # w
        /\ wpc[v] = "running" /\ wpc[w] = "running"
        /\ wjob[v] # wjob[w]

\* C3: every job for which send_job returned is eventually executed (its body
\* runs and ends), under fair scheduling, whenever job bodies terminate.
C3_EveryJobExecuted ==
    \A j \in 1..MaxJobs : (j \in Range(sent)) ~> (j \in finished)

\* the part of C3 that the code keeps: a job is left unexecuted only after a
\* worker was lost to a panicking job
EveryJobExecutedUnlessPanic ==
    \A j \in 1..MaxJobs : (j \in Range(sent)) ~> (j \in finished \/ SomeWorkerPanicked)

\* C4: until shutdown the number of workers looping on the queue equals the
\* configured thread count, whatever the jobs do.
C4_WorkersSurviveJobs ==
    sender_alive => Cardinality(LiveWorkers) = threads_number

\* C6: when drop has returned every accepted job has finished, nothing is
\* left in the channel, every worker has left its loop and
\* active_threads_number is 0; the Sender is gone only during or after drop.
C6_DropLeavesNothingBehind ==
    /\ cpc = "dropped" =>
          /\ \A j \in Range(sent) : j \in finished
          /\ queue = <<>>
          /\ \A w \in Workers : wpc[w] = "done"
          /\ active_threads_number = 0
    /\ ~sender_alive => cpc \in {"drop_spin", "dropped"}

\* drop has returned after every submitted job ran
C6_Witness ==
    /\ cpc = "dropped"
    /\ Len(sent) = MaxJobs
    /\ Len(started) = MaxJobs

\* C7: once drop is entered it eventually returns, provided every job body
\* returns (no worker is lost to a panicking job).
C7_DropTerminates ==
    (cpc = "drop_wait_active") ~> (cpc = "dropped" \/ SomeWorkerPanicked)

\* drop is spinning on has_some_job while a job is still queued or running
C7_Witness ==
    /\ cpc = "drop_wait_queue"
    /\ ~SomeWorkerPanicked
    /\ Len(sent) >= 2
    /\ \E j \in Range(sent) : j \notin finished

C5_HandlerRunsOnPoolWorker ==
    \A c \in Conns :
        conn[c] \in {"serving", "closed"} /\ handler_thread[c] # "none" =>
            /\ handler_thread[c] = "pool_worker"
            /\ Len(sent) >= Cardinality({b \in Conns : handler_thread[b] # "none"})

IsPrefix(a, b) == Len(a) <= Len(b) /\ SubSeq(b, 1, Len(a)) = a

\* the decoded request path of the request being handled
RequestPath == ToPath(DecodeBinary(PathString(FirstLine(request))))

\* the entry a request path names inside the served site
SiteEntry(fs, p) == Walk(fs, RootFolder, p.parts)

\* C9: the entry that full_path names, the one get_file_content reads, lies
\* inside the root directory, for every request target.
C9_PathStaysInsideRoot ==
    hpc \in {"resolved", "looked_up", "answered", "written", "flushed"} =>
        (Walk(host_fs, <<>>, full_path) # NoEntry =>
            IsPrefix(RootFolder, Walk(host_fs, <<>>, full_path)))

\* C10: a target that names a directory of the served site is answered with
\* that directory's index.html: full_path is <root>/<target>/index.html, and
\* when that file exists the answer is 200 OK with its text, whatever the
\* rest of the host filesystem holds.
C10_SiteDirectoryServesIndex ==
    (/\ hpc = "answered"
     /\ RequestPath.root
     /\ SiteEntry(host_fs, RequestPath) \in Dirs(host_fs)
     /\ IsPrefix(RootFolder, SiteEntry(host_fs, RequestPath)))
    =>
    (/\ full_path = RootFolder \o RequestPath.parts \o <<"index.html">>
     /\ Append(SiteEntry(host_fs, RequestPath), "index.html") \in TextFiles(host_fs) =>
           /\ answer[1] = "HTTP/1.1 200 OK\r\n"
           /\ answer[Len(answer)] =
                  FileText(host_fs, Append(SiteEntry(host_fs, RequestPath), "index.html")))

\* perform has returned Ok(())
PerformReturnedOk == hpc = "closed" /\ herror = "none"

\* C11: when a write of the response bytes to the connection has failed,
\* perform returns Err(AnswerWriteError), whatever the size of the response.
C11_WriteFaultIsReported ==
    (hpc = "closed" /\ write_failed) => herror = "AnswerWriteError"

\* The part of C11 the code keeps: a response too large for the BufWriter's
\* buffer is written by write_all itself, and a fault of that write is
\* returned as AnswerWriteError.
DirectWriteFaultIsReported ==
    (hpc = "closed" /\ write_failed /\ AnswerLen(answer) >= BufWriterCapacity)
        => herror = "AnswerWriteError"

\* the entry full_path names cannot be read as text: there is none, it is a
\* directory, it may not be read or it is not UTF-8
LookupFails ==
    LET e == Walk(host_fs, <<>>, full_path)
    IN  \/ e = NoEntry
        \/ e \in Dirs(host_fs)
        \/ e = IndexFile /\ host_fs.index \in {"unreadable", "binary"}

\* C17: once the path is resolved perform forms and writes a response
\* whatever the lookup yields; when the file cannot be read as text the
\* response is 404 Not Found with the embedded page, and perform returns no
\* error other than one of the write or of the shutdown.
C17_LookupFailureAnswers404 ==
    /\ (hpc = "closed" /\ full_path # <<>>) =>
           /\ answer # <<>>
           /\ herror \in {"none", "AnswerWriteError", "ShutdownFailed"}
    /\ (answer # <<>> /\ LookupFails) =>
           /\ answer[1] = "HTTP/1.1 404 Not Found\r\n"
           /\ answer[Len(answer)] = NotFoundPage
           /\ (hpc = "closed" /\ ~write_failed /\ herror # "ShutdownFailed")
                  => PerformReturnedOk /\ sent_bytes = AnswerLen(answer)

\* a file that is not UTF-8 was requested, answered with the 404 page, and
\* perform returned Ok
C17_Witness ==
    /\ PerformReturnedOk
    /\ Walk(host_fs, <<>>, full_path) = IndexFile
    /\ host_fs.index = "binary"
    /\ answer[1] = "HTTP/1.1 404 Not Found\r\n"
    /\ sent_bytes = AnswerLen(answer)

\* C18: the answer is, in this order and with nothing else, the status line
\* (200 OK iff content is present), Server, Connection: close, Content-Type:
\* text/html, Content-Length with the byte length of the body, one empty
\* line, and the body (the file's text, or the embedded page when absent).
C18_AnswerLayout ==
    answer # <<>> =>
        /\ Len(answer) = 7
        /\ answer[1] = (IF file_content = "none" THEN "HTTP/1.1 404 Not Found\r\n"
                                                 ELSE "HTTP/1.1 200 OK\r\n")
        /\ answer[2] = "Server: Simple Web Server\r\n"
        /\ answer[3] = "Connection: close\r\n"
        /\ answer[4] = "Content-Type: text/html\r\n"
        /\ answer[5] = "Content-Length: " \o ToString(ByteLen(answer[7])) \o "\r\n"
        /\ answer[6] = "\r\n"
        /\ answer[7] = (IF file_content = "none" THEN NotFoundPage ELSE file_content)

\* answers formed for a present but empty file and for an absent one
C18_Witness ==
    /\ hpc = "answered"
    /\ file_content = ""
    /\ answer[1] = "HTTP/1.1 200 OK\r\n"
    /\ answer[5] = "Content-Length: 0\r\n"

\* ---- claims on the bytes read, under PerformSpec
\* the bytes before the first space of the request line
MethodToken(stream) == Join(TakeWhileNotSpace(FirstLine(stream)))

\* the first three bytes of the stream are GET
MethodIsGet == Join(TakeBytes(rd_input, 3)) = "GET"

\* no byte of a response has been handed to the connection or its buffer
NothingWritten == sent_bytes = 0 /\ wbuf = 0

\* read_http_request has returned Ok / has returned an error
ReadOk == hpc = "request_read" \/ \E i \in 1..Len(steps) : steps[i] = "resolve"
ReadFailed == hpc = "closed" /\ ~ReadOk

\* C12: a request whose method token is not exactly GET is rejected with
\* WrongRequest and no response byte is written.
C12_NonGetRejected ==
    (rd_input \in FullRequests /\ MethodToken(rd_input) # "GET") =>
        /\ NothingWritten
        /\ hpc = "closed" => herror = "WrongRequest"

\* The part of C12 the code keeps: a stream whose first three bytes are not
\* GET is rejected by the first read, with nothing written.
OtherFirstBytesRejected ==
    (SymBytes(rd_input) >= 3 /\ ~MethodIsGet) =>
        /\ NothingWritten
        /\ hpc = "closed" => (herror = "WrongRequest" /\ steps = <<"read_method">>)

\* C13: when the client closes the connection before it has sent a complete
\* request, perform fails with WrongRequest, wherever the stream ends.
C13_EarlyEofIsWrongRequest ==
    (rd_end = "eof" /\ rd_input \notin FullRequests /\ hpc = "closed") =>
        herror = "WrongRequest"

\* The part of C13 the code keeps: an end of stream after the three method
\* bytes is WrongRequest.
EofAfterMethodIsWrongRequest ==
    (rd_end = "eof" /\ rd_input \notin FullRequests /\ hpc = "closed"
        /\ SymBytes(rd_input) >= 3) => herror = "WrongRequest"

\* byte offset at which the first line that holds nothing but its line end
\* is complete, counted from off; 0 when there is no such line
RECURSIVE FirstBareLineEnd(_, _)
FirstBareLineEnd(rest, off) ==
    LET l == UpToNewline(rest)
    IN  IF Len(l) = Len(rest) THEN 0
        ELSE IF Join(l) \in {"", "\r"} THEN off + SymBytes(l) + 1
        ELSE FirstBareLineEnd(SubSeq(rest, Len(l) + 2, Len(rest)), off + SymBytes(l) + 1)

\* a line of nothing but its line end is complete within the 4096 bytes that
\* follow GET; what stands between GET and the end of the request line
\* counts as a line
BareLineWithinCap ==
    LET e == FirstBareLineEnd(DropBytes(rd_input, 3), 0)
    IN  e > 0 /\ e <= MAX_REQUEST_READ_SIZE

\* the empty line that ends the request, the first empty line after the
\* request line, is complete within the 4096 bytes that follow GET
EmptyLineWithinCap ==
    LET rest == DropBytes(rd_input, 3)
        l == UpToNewline(rest)
        e == IF Len(l) = Len(rest) THEN 0
             ELSE FirstBareLineEnd(SubSeq(rest, Len(l) + 2, Len(rest)), SymBytes(l) + 1)
    IN  e > 0 /\ e <= MAX_REQUEST_READ_SIZE

StepOrder ==
    <<"read_method", "read_line", "resolve", "lookup", "form_answer",
      "write_all", "drop_writer", "shutdown">>

\* steps without the repetitions of read_line
RECURSIVE Collapse(_)
Collapse(s) ==
    IF Len(s) < 2 THEN s
    ELSE IF s[1] = "read_line" /\ s[2] = "read_line" THEN Collapse(Tail(s))
    ELSE <<Head(s)>> \o Collapse(Tail(s))

\* C16: when perform returns the connection is closed; shutdown has been
\* called exactly once when the response was written without a fault and
\* not at all otherwise; and the steps were taken in the order read method,
\* read headers, resolve, respond, close, none of them twice.
C16_ShutdownIffWritten ==
    /\ IsPrefix(Collapse(steps), StepOrder)
    /\ hpc = "closed" =>
          shutdowns = (IF answer # <<>> /\ ~write_failed THEN 1 ELSE 0)

\* The part of C16 the code keeps: the order of the steps, and one shutdown
\* exactly when write_all returned Ok.
StepsInOrderOneShutdown ==
    /\ IsPrefix(Collapse(steps), StepOrder)
    /\ shutdowns <= 1
    /\ hpc = "closed" =>
          shutdowns = (IF answer # <<>> /\ herror # "AnswerWriteError" THEN 1 ELSE 0)

\* ---- claims on Server::run, under ServerSpec / FairServerSpec
\* C14: a read that times out ends perform with a read error that carries
\* the time-out, and Server::run does not print that error.
C14_ReadTimeoutNotLogged ==
    \A c \in Conns : conn_result[c] \in ReadTimeoutErrors => c \notin logged

\* The parts of C14 the code keeps: the client that sends GET and then
\* nothing gets a read error with the time-out, never WrongRequest
\* (PerformSpec), and run does not print the error whose kind is TimedOut
\* (ServerSpec).
GetThenSilenceIsReadTimeout ==
    (Join(rd_input) = "GET" /\ rd_end = "timeout" /\ hpc = "closed")
        => herror \in ReadTimeoutErrors

TimedOutNotLogged ==
    \A c \in Conns : conn_result[c] = "RequestReadError_TimedOut" => c \notin logged

\* C19: run returns only after the Ctrl-C signal was received; no failure
\* of accept, of the preparation of a stream or of the handler ends it.
C19_ReturnsOnlyOnCtrlC ==
    run_pc = "returned" => (run_exit = "ctrl_c" /\ ctrl_c = "received")

\* The part of C19 the code keeps: after a failed accept and after any
\* result of perform the loop starts its next iteration.
AcceptAndHandlerErrorsGoOn ==
    [][/\ (run_pc = "accept" /\ run_pc' # run_pc) => run_pc' \in {"prepare", "ctrl_c"}
       /\ (run_pc = "performing" /\ run_pc' # run_pc) => run_pc' = "result"
       /\ (run_pc = "result" /\ run_pc' # run_pc) => run_pc' = "ctrl_c"]_vars

\* C20 as stated: once the signal has been delivered no connection is
\* accepted any more.
C20_NoAcceptAfterSignal == late_accepts = {}

\* C20, amended: once the signal has been delivered run accepts at most one
\* further connection, that of the iteration in progress, and eventually
\* returns; a connection that is being served is ended by perform returning
\* and by nothing else, and none is being served when run has returned.
C20_CooperativeShutdown ==
    /\ [](Cardinality(late_accepts) <= 1)
    /\ [](run_pc = "returned" => \A c \in Conns : conn[c] # "serving")
    /\ [][\A c \in Conns :
            (conn[c] = "serving" /\ conn'[c] # "serving")
                => (run_pc = "performing" /\ run_pc' = "result"
                    /\ conn_result'[c] \in PerformResults)]_vars
    /\ (ctrl_c = "pending" ~> run_pc = "returned")

\* the signal arrived while the loop was past its check: one more connection
\* was accepted and served to the end, then run returned on the signal
C20_Witness ==
    /\ run_pc = "returned"
    /\ run_exit = "ctrl_c"
    /\ \E c \in late_accepts : conn[c] = "closed" /\ conn_result[c] = "Ok"

\* ---- claims on the start-up, under MainSpec
\* C21 as stated: build_config returns Err(ZeroThreadsNumber) whenever
\* threads_number is 0, the assertion of ThreadPool::new holds in every run
\* from main and the pool has between 1 and 255 workers.
C21_ZeroThreadsIsZeroThreadsNumber ==
    /\ (config_result # "none" /\ args.threads_number = 0)
           => config_result = "ZeroThreadsNumber"
    /\ main_pc # "assert_failed"
    /\ main_pc \in {"run", "exit_success"} => pool_workers \in 1..255

\* C21, amended: build_config returns an Err whenever threads_number is 0,
\* ZeroThreadsNumber when the address and the root folder are valid and the
\* error of the earlier check otherwise; ThreadPool::new is reached only
\* with threads_number > 0, its assertion holds and the pool has between 1
\* and 255 workers.
C21_ZeroThreadsRejected ==
    /\ (config_result # "none" /\ args.threads_number = 0) =>
           /\ config_result \in {"WrongAddr", "WrongRootFolderPath", "ZeroThreadsNumber"}
           /\ (args.addr_ok /\ args.root_is_dir) => config_result = "ZeroThreadsNumber"
           /\ main_pc = "exit_failure"
           /\ pool_workers = 0
    /\ main_pc = "pool_new" => args.threads_number > 0
    /\ main_pc # "assert_failed"
    /\ main_pc \in {"run", "exit_success"} =>
           (pool_workers = args.threads_number /\ pool_workers \in 1..255)

\* 0 threads with a valid address and root folder: main has stopped with
\* ZeroThreadsNumber and no pool
C21_Witness ==
    /\ args.threads_number = 0
    /\ config_result = "ZeroThreadsNumber"
    /\ main_pc = "exit_failure"
    /\ pool_workers = 0

\* ---- claims on the pool's mutex and counters
\* C23: the receiver mutex is held only by a worker that is in recv, never
\* by one that executes a job, so whatever the other workers execute a
\* worker that waits for the mutex can take it as soon as the receiving
\* worker has its job; N workers execute N jobs at the same time.
C23_NoLockWhileExecuting ==
    /\ \A w \in Workers : (mutex = w) <=> (wpc[w] = "recv")
    /\ \A w \in Workers : wpc[w] = "running" => mutex # w
    /\ mutex \in {0} \cup Workers

\* every worker of the largest pool is inside a job body, each in its own
C23_Witness ==
    /\ threads_number = MaxThreads
    /\ \A w \in Workers : wpc[w] = "running"
    /\ Cardinality({wjob[w] : w \in Workers}) = MaxThreads
    /\ mutex = 0

\* send_job calls that have incremented jobs_queue_size and not taken the
\* increment back
CountedJobs == Len(sent) + (IF cpc = "send" THEN 1 ELSE 0)

\* jobs a worker has received and subtracted from jobs_queue_size (line 61)
SubtractedJobs == Len(dequeued) - Cardinality({w \in Workers : wpc[w] = "dec_queue"})

\* workers between the fetch_add of line 64 and the fetch_sub of line 67
WorkersInJob == {w \in Workers : wpc[w] \in {"call", "running", "dec_active"}}

\* C22: jobs_queue_size is the number of jobs send_job has counted and no
\* worker has yet taken off the count, for any number of outstanding jobs,
\* and active_jobs_counter is the number of workers inside a job, which is
\* at most the thread count.
C22_CountersTrack ==
    /\ jobs_queue_size = CountedJobs - SubtractedJobs
    /\ active_jobs_counter = Cardinality(WorkersInJob)
    /\ active_jobs_counter <= threads_number

\* The part of C22 the code keeps: with fewer than 256 outstanding jobs and
\* no job that panicked both counters are exact.
CountersTrackBelowWrap ==
    (CountedJobs - SubtractedJobs < U8Mod /\ ~SomeWorkerPanicked) =>
        /\ jobs_queue_size = CountedJobs - SubtractedJobs
        /\ active_jobs_counter = Cardinality(WorkersInJob)
        /\ active_jobs_counter <= threads_number

====
